---- MODULE Spec2Model ----
(***************************************************************************)
(* Model of Resultats/PlasmaMLPALLAS_Routine.py: the two beam statistics   *)
(* functions compute_emittance_and_twiss and compute_rms_size, and the     *)
(* plotting script that calls them.                                        *)
(*                                                                         *)
(* Numbers.  A float is a record [k, n, d]:                                *)
(*   k = "rat"  : the rational n/d (d > 0, lowest terms)                   *)
(*   k = "root" : sign(n) * sqrt(|n|/d), the result of np.sqrt or of a     *)
(*                division by such a value                                 *)
(*   k = "nan", "pinf", "ninf" : the IEEE specials (n = 0, d = 1)          *)
(* Arithmetic is exact; binary64 rounding and signed zeros are not         *)
(* represented.                                                            *)
(***************************************************************************)
EXTENDS Integers, Sequences, FiniteSets, TLC

\* ------------------------------------------------------------------ bounds
\* longest position/angle sequence handed to the functions directly
MaxLen == 3
\* most events (tree entries) in the data file read by the script
MaxEvents == 3

\* ------------------------------------------------------------ float layer
Abs(i) == IF i < 0 THEN -i ELSE i

Sign(i) == IF i > 0 THEN 1 ELSE IF i < 0 THEN -1 ELSE 0

RECURSIVE GCD(_, _)
GCD(a, b) == IF b = 0 THEN a ELSE GCD(b, a % b)

\* the rational n/d in lowest terms with a positive denominator
Rat(n, d) ==
    LET g == GCD(Abs(n), Abs(d))
        s == IF d < 0 THEN -1 ELSE 1
    IN [k |-> "rat", n |-> (s * n) \div g, d |-> Abs(d) \div g]

\* sign(n) * sqrt(|n|/d)
Root(n, d) ==
    LET g == GCD(Abs(n), Abs(d))
    IN [k |-> "root", n |-> n \div g, d |-> Abs(d) \div g]

F(i) == Rat(i, 1)

NaN == [k |-> "nan", n |-> 0, d |-> 1]
PInf == [k |-> "pinf", n |-> 0, d |-> 1]
NInf == [k |-> "ninf", n |-> 0, d |-> 1]

\* np.isfinite
isfinite(v) == v.k \in {"rat", "root"}

\* np.isnan
isnan(v) == v.k = "nan"

\* v >= lim and v <= lim for an integer limit (IEEE: every comparison with
\* NaN is false)
GeInt(v, lim) ==
    CASE v.k = "rat" -> v.n >= lim * v.d
      [] v.k = "pinf" -> TRUE
      [] OTHER -> FALSE

LeInt(v, lim) ==
    CASE v.k = "rat" -> v.n <= lim * v.d
      [] v.k = "ninf" -> TRUE
      [] OTHER -> FALSE

\* v > 0
GtZero(v) ==
    CASE v.k \in {"rat", "root"} -> v.n > 0
      [] v.k = "pinf" -> TRUE
      [] OTHER -> FALSE

RAdd(a, b) == Rat(a.n * b.d + b.n * a.d, a.d * b.d)
RSub(a, b) == Rat(a.n * b.d - b.n * a.d, a.d * b.d)
RMul(a, b) == Rat(a.n * b.n, a.d * b.d)
RNeg(a) == Rat(-a.n, a.d)
RDivInt(a, i) == Rat(a.n, a.d * i)

RECURSIVE RSum(_)
RSum(s) == IF s = <<>> THEN F(0) ELSE RAdd(Head(s), RSum(Tail(s)))

\* np.mean of a non-empty sequence of rationals
Mean(s) == RDivInt(RSum(s), Len(s))

\* np.sqrt of a rational
Sqrt(a) == IF a.n < 0 THEN NaN ELSE Root(a.n, a.d)

\* a / e for a rational a and a positive e = sqrt(q):  sign(a)*sqrt(a^2/q)
DivRoot(a, e) ==
    Root(Sign(a.n) * a.n * a.n * e.d, a.d * a.d * e.n)

\* ------------------------------------------------------------- parameters
pos_lim == <<-5, 5>>
angle_lim_mrad == <<-5, 5>>

quads == <<"Q1", "Q2", "Q3", "Q4">>
stages == <<"Begin", "End">>

\* -------------------------------------------------------- array indexing
\* a[mask] for a boolean mask of the same length
RECURSIVE BoolIndex(_, _)
BoolIndex(a, mask) ==
    IF a = <<>> THEN <<>>
    ELSE IF Head(mask) THEN <<Head(a)>> \o BoolIndex(Tail(a), Tail(mask))
    ELSE BoolIndex(Tail(a), Tail(mask))

\* ------------------------------------------- compute_emittance_and_twiss
\* variant: the angle window is not applied
EmitMask_noangle(x, theta) ==
    [i \in 1..Len(x) |->
        /\ isfinite(x[i]) /\ isfinite(theta[i])
        /\ GeInt(x[i], pos_lim[1]) /\ LeInt(x[i], pos_lim[2])]

\* variant: open windows (a value on a bound is dropped)
EmitMask_strict(x, theta) ==
    [i \in 1..Len(x) |->
        /\ isfinite(x[i]) /\ isfinite(theta[i])
        /\ ~LeInt(x[i], pos_lim[1]) /\ ~GeInt(x[i], pos_lim[2])
        /\ ~LeInt(theta[i], angle_lim_mrad[1]) /\ ~GeInt(theta[i], angle_lim_mrad[2])]

EmitMask(x, theta) ==
    [i \in 1..Len(x) |->
        /\ isfinite(x[i]) /\ isfinite(theta[i])
        /\ GeInt(x[i], pos_lim[1]) /\ LeInt(x[i], pos_lim[2])
        /\ GeInt(theta[i], angle_lim_mrad[1]) /\ LeInt(theta[i], angle_lim_mrad[2])]

\* the locals x and theta after lines 42-43
EmitFiltered(x, theta) ==
    [x |-> BoolIndex(x, EmitMask(x, theta)),
     theta |-> BoolIndex(theta, EmitMask(x, theta))]

\* the ddof the script passes to np.cov
CovDdof == 1

\* one entry of np.cov(..., ddof): sum((a - mean a)(b - mean b)) / (n - ddof)
Cov(a, b) ==
    LET ma == Mean(a)
        mb == Mean(b)
        prod == [i \in 1..Len(a) |-> RMul(RSub(a[i], ma), RSub(b[i], mb))]
    IN RDivInt(RSum(prod), Len(a) - CovDdof)

\* variant: sign slip in the determinant
Det_plus(sig_x2, sig_xt, sig_t2) == RAdd(RMul(sig_x2, sig_t2), RMul(sig_xt, sig_xt))

Det(sig_x2, sig_xt, sig_t2) == RSub(RMul(sig_x2, sig_t2), RMul(sig_xt, sig_xt))

\* variant: det >= 0 accepted
Eps_ge(det) == IF det.k = "rat" /\ det.n >= 0 THEN Sqrt(det) ELSE NaN

\* eps = np.sqrt(det) if det > 0 else np.nan
Eps(det) == IF GtZero(det) THEN Sqrt(det) ELSE NaN

\* variant: 0 instead of nan when eps is not positive
OverEps_zero(num, eps) == IF GtZero(eps) THEN DivRoot(num, eps) ELSE F(0)

\* num/eps if eps > 0 else np.nan
OverEps(num, eps) == IF GtZero(eps) THEN DivRoot(num, eps) ELSE NaN

compute_emittance_and_twiss(x0, theta0) ==
    LET f == EmitFiltered(x0, theta0)
        x == f.x
        theta == f.theta
    IN IF Len(x) < 2 THEN <<NaN, NaN, NaN, NaN>>
       ELSE LET sig_x2 == Cov(x, x)
                sig_xt == Cov(x, theta)
                sig_t2 == Cov(theta, theta)
                det == Det(sig_x2, sig_xt, sig_t2)
                eps == Eps(det)
                alpha == OverEps(RNeg(sig_xt), eps)
                beta == OverEps(sig_x2, eps)
                gamma == OverEps(sig_t2, eps)
            IN <<eps, alpha, beta, gamma>>

\* ------------------------------------------------------ compute_rms_size
\* variant: open position window
RmsMask_strict(x) ==
    [i \in 1..Len(x) |->
        isfinite(x[i]) /\ ~LeInt(x[i], pos_lim[1]) /\ ~GeInt(x[i], pos_lim[2])]

RmsMask(x) ==
    [i \in 1..Len(x) |->
        isfinite(x[i]) /\ GeInt(x[i], pos_lim[1]) /\ LeInt(x[i], pos_lim[2])]

RmsFiltered(x) == BoolIndex(x, RmsMask(x))

\* variant: sum of squared deviations divided by n - 1 (n >= 2)
PopRms_sample(x) ==
    LET m == Mean(x)
        sq == [i \in 1..Len(x) |-> RMul(RSub(x[i], m), RSub(x[i], m))]
    IN IF Len(x) < 2 THEN Sqrt(Mean(sq)) ELSE Sqrt(RDivInt(RSum(sq), Len(x) - 1))

\* np.sqrt(np.mean((x - np.mean(x))**2))
PopRms(x) ==
    LET m == Mean(x)
        sq == [i \in 1..Len(x) |-> RMul(RSub(x[i], m), RSub(x[i], m))]
    IN Sqrt(Mean(sq))

compute_rms_size(x0) ==
    LET x == RmsFiltered(x0)
    IN IF Len(x) = 0 THEN NaN ELSE PopRms(x)

\* ---------------------------------------------------------------- state
VARIABLES
    \* the script
    pc, file, figs, axes, q, stage, Ntot,
    x, z, theta_x, theta_z, rms_x, rms_z,
    eps_x, alpha_x, beta_x, gamma_x, eps_z, alpha_z, beta_z, gamma_z,
    frac_stopped_hc, frac_stopped_vc, x_yag, z_yag, energy_input, energy_yag,
    \* direct calls of the two functions
    position, angle, given, filt, out, rms, calls

scriptVars ==
    <<pc, file, figs, axes, q, stage, Ntot, x, z, theta_x, theta_z, rms_x, rms_z,
      eps_x, alpha_x, beta_x, gamma_x, eps_z, alpha_z, beta_z, gamma_z,
      frac_stopped_hc, frac_stopped_vc, x_yag, z_yag, energy_input, energy_yag>>

fnVars == <<position, angle, given, filt, out, rms, calls>>

vars == <<scriptVars, fnVars>>

\* a name that has not been assigned yet
Unbound == [k |-> "unbound", n |-> 0, d |-> 1]

\* ------------------------------------------------- direct calls: inputs
\* (position, angle) samples: inside both windows, on a window bound, outside
\* one window, and non-finite in one coordinate
Samples ==
    { <<F(0), F(0)>>, <<F(1), F(0)>>, <<F(0), F(1)>>, <<F(2), F(1)>>,
      <<F(5), F(-5)>>, <<F(-5), F(5)>>,
      <<F(6), F(0)>>, <<F(0), F(-6)>>, <<F(1), F(6)>>,
      <<NaN, F(0)>>, <<F(1), NaN>>, <<PInf, F(1)>>, <<F(0), NInf>> }

\* variant: the filter is written through the arguments
ArgsAfterEmittance_inplace(a, t) == <<EmitFiltered(a, t).x, EmitFiltered(a, t).theta>>

\* the arrays the caller holds after compute_emittance_and_twiss(x, theta)
\* returns: lines 42-43 rebind the function's local names to new arrays and
\* write nothing through the arguments
ArgsAfterEmittance(a, t) == <<a, t>>

\* the array the caller holds after compute_rms_size(x) returns (line 58)
ArgsAfterRms(a) == a

InitScriptIdle ==
    /\ pc = "idle" /\ file = <<>> /\ figs = <<>> /\ axes = <<>>
    /\ q = 0 /\ stage = 0 /\ Ntot = 0
    /\ x = <<>> /\ z = <<>> /\ theta_x = <<>> /\ theta_z = <<>>
    /\ rms_x = Unbound /\ rms_z = Unbound
    /\ eps_x = Unbound /\ alpha_x = Unbound /\ beta_x = Unbound /\ gamma_x = Unbound
    /\ eps_z = Unbound /\ alpha_z = Unbound /\ beta_z = Unbound /\ gamma_z = Unbound
    /\ frac_stopped_hc = Unbound /\ frac_stopped_vc = Unbound
    /\ x_yag = <<>> /\ z_yag = <<>> /\ energy_input = <<>> /\ energy_yag = <<>>

InitFnIdle ==
    /\ position = <<>> /\ angle = <<>> /\ given = <<<<>>, <<>>>>
    /\ filt = [x |-> <<>>, theta |-> <<>>]
    /\ out = <<Unbound, Unbound, Unbound, Unbound>>
    /\ rms = Unbound
    /\ calls = <<>>

InitFn ==
    /\ InitScriptIdle
    /\ \E n \in 0..MaxLen : \E s \in [1..n -> Samples] :
        /\ position = [i \in 1..n |-> s[i][1]]
        /\ angle = [i \in 1..n |-> s[i][2]]
        /\ given = <<[i \in 1..n |-> s[i][1]], [i \in 1..n |-> s[i][2]]>>
    /\ filt = [x |-> <<>>, theta |-> <<>>]
    /\ out = <<Unbound, Unbound, Unbound, Unbound>>
    /\ rms = Unbound
    /\ calls = <<>>

Called(c) == \E i \in 1..Len(calls) : calls[i] = c

CallEmittance ==
    /\ ~Called("emit")
    /\ out' = compute_emittance_and_twiss(position, angle)
    /\ filt' = EmitFiltered(position, angle)
    /\ position' = ArgsAfterEmittance(position, angle)[1]
    /\ angle' = ArgsAfterEmittance(position, angle)[2]
    /\ calls' = Append(calls, "emit")
    /\ UNCHANGED <<given, rms, scriptVars>>

CallRms ==
    /\ ~Called("rms")
    /\ rms' = compute_rms_size(position)
    /\ position' = ArgsAfterRms(position)
    /\ calls' = Append(calls, "rms")
    /\ UNCHANGED <<angle, given, filt, out, scriptVars>>

NextFn == CallEmittance \/ CallRms

SpecFn == InitFn /\ [][NextFn]_vars

\* ===================================================================
\* The script
\* ===================================================================

\* ------------------------------------------------- data files (inputs)
\* A file holds one entry per simulated particle in Input and in
\* QuadrupolesTracking.  A particle starts at (x0, z0) with momentum
\* (mx, my, mz) and drifts by (mx, mz) mm per station; the eight stations are
\* Q1 Begin .. Q4 End.  A particle that ends outside the position window is
\* stopped by a collimator on the edge of the window, the others give one
\* BSPECYAG entry (without a hit when my = 0).
Tracks ==
    { [x0 |-> 0, z0 |-> 0, mx |-> 0, my |-> 1000, mz |-> 0, e |-> 100],
      [x0 |-> 1, z0 |-> 0, mx |-> 0, my |-> 1000, mz |-> 1, e |-> 150],
      [x0 |-> 0, z0 |-> 1, mx |-> 1, my |-> 1000, mz |-> 0, e |-> 200],
      [x0 |-> -1, z0 |-> -1, mx |-> 0, my |-> 0, mz |-> 0, e |-> 50],
      [x0 |-> 6, z0 |-> -6, mx |-> -1, my |-> 0, mz |-> 1, e |-> 100] }

Station(qi, si) == (qi - 1) * Len(stages) + si

LastStation == Len(quads) * Len(stages)

TrackX(t, s) == t.x0 + t.mx * s
TrackZ(t, s) == t.z0 + t.mz * s

OutOfWindow(v) == v < pos_lim[1] \/ v > pos_lim[2]

\* a collimator jaw sits on the edge of the window
Clip(v) == IF v < pos_lim[1] THEN pos_lim[1] ELSE IF v > pos_lim[2] THEN pos_lim[2] ELSE v

HitsHorizontal(t) == OutOfWindow(TrackX(t, LastStation))
HitsVertical(t) == ~HitsHorizontal(t) /\ OutOfWindow(TrackZ(t, LastStation))
ReachesYag(t) == ~HitsHorizontal(t) /\ ~HitsVertical(t)

FileOf(ts) ==
    LET hc == SelectSeq(ts, HitsHorizontal)
        vc == SelectSeq(ts, HitsVertical)
        yag == SelectSeq(ts, ReachesYag)
    IN [Input |->
            [i \in 1..Len(ts) |->
                [x |-> F(ts[i].x0), z |-> F(ts[i].z0),
                 xp |-> Rat(ts[i].mx, 1000), zp |-> Rat(ts[i].mz, 1000),
                 energy |-> F(ts[i].e)]],
        QuadrupolesTracking |->
            [i \in 1..Len(ts) |->
                [qi \in 1..Len(quads) |-> [si \in 1..Len(stages) |->
                    [Pos_x |-> F(TrackX(ts[i], Station(qi, si))),
                     Pos_z |-> F(TrackZ(ts[i], Station(qi, si))),
                     Mom_x |-> F(ts[i].mx), Mom_y |-> F(ts[i].my),
                     Mom_z |-> F(ts[i].mz)]]]],
        Horizontal_Coll |->
            [i \in 1..Len(hc) |->
                [x_interaction |-> F(Clip(TrackX(hc[i], LastStation))),
                 z_interaction |-> F(Clip(TrackZ(hc[i], LastStation)))]],
        Vertical_Coll |->
            [i \in 1..Len(vc) |->
                [x_interaction |-> F(Clip(TrackX(vc[i], LastStation))),
                 z_interaction |-> F(Clip(TrackZ(vc[i], LastStation)))]],
        BSPECYAG |->
            [i \in 1..Len(yag) |->
                IF yag[i].my = 0
                THEN [x_exit |-> <<>>, z_exit |-> <<>>, energy |-> <<>>]
                ELSE [x_exit |-> <<F(TrackX(yag[i], LastStation))>>,
                      z_exit |-> <<F(TrackZ(yag[i], LastStation) - 300)>>,
                      energy |-> <<F(yag[i].e)>>]]]

Files == {FileOf(ts) : ts \in UNION {[1..n -> Tracks] : n \in 0..MaxEvents}}

\* ------------------------------------------------------ array helpers
\* tree.arrays(library="np")[name]: one value per entry
Column(table, name) == [i \in 1..Len(table) |-> table[i][name]]

\* variant: the column of Q1 Begin whatever the loop variables are
QuadColumn_first(qi, si, field) ==
    [i \in 1..Len(file.QuadrupolesTracking) |->
        file.QuadrupolesTracking[i][1][1][field]]

\* data_quads[f"{q}{stage}<field>"]
QuadColumn(qi, si, field) ==
    [i \in 1..Len(file.QuadrupolesTracking) |->
        file.QuadrupolesTracking[i][qi][si][field]]

\* a / b on floats (numpy: a/0 is +-inf, 0/0 is nan)
FDiv(a, b) ==
    IF a.k # "rat" \/ b.k # "rat" THEN NaN
    ELSE IF b.n = 0
         THEN (IF a.n = 0 THEN NaN ELSE IF a.n > 0 THEN PInf ELSE NInf)
         ELSE Rat(a.n * b.d, a.d * b.n)

\* v * k for a positive integer k
FMulInt(v, k) == IF v.k = "rat" THEN Rat(v.n * k, v.d) ELSE v

\* a / b * 1000, element by element
AngleMrad(a, b) == [i \in 1..Len(a) |-> FMulInt(FDiv(a[i], b[i]), 1000)]

\* np.concatenate of a non-empty list of arrays
RECURSIVE Concatenate(_)
Concatenate(arrs) ==
    IF arrs = <<>> THEN <<>> ELSE Head(arrs) \o Concatenate(Tail(arrs))

\* ----------------------------------------------------------- rendering
\* hist2d ranges: Input positions, YAG positions
input_range == <<Rat(-1, 10), Rat(1, 10)>>
yag_range_x == <<F(-5), F(5)>>
yag_range_z == <<F(-340), F(-250)>>

\* a pair of integer limits as a hist2d range
Range(lim) == <<F(lim[1]), F(lim[2])>>

\* v falls in a bin of a histogram over the closed range r
InRange(v, r) ==
    /\ v.k = "rat"
    /\ r[1].n * v.d <= v.n * r[1].d
    /\ v.n * r[2].d <= r[2].n * v.d

\* np.histogram2d(a, b, range=[ra, rb]) has no count at all
HistEmpty(a, b, ra, rb) ==
    \A i \in 1..Len(a) : ~(InRange(a[i], ra) /\ InRange(b[i], rb))

\* hist2d(..., norm=LogNorm()) followed by fig.colorbar.  matplotlib is not
\* part of the source: on a histogram without counts LogNorm has no positive
\* value to scale, and depending on the library version hist2d or the colorbar
\* return or raise ValueError.  Every outcome is kept.
Rendering(empty) ==
    IF empty THEN {"ok", "hist2d raises", "colorbar raises"} ELSE {"ok"}

\* f"{v:.3f}": "nan" / "inf" / "-inf" for the specials, digits otherwise
Fmt(v) ==
    [txt |-> CASE v.k = "nan" -> "nan"
               [] v.k = "pinf" -> "inf"
               [] v.k = "ninf" -> "-inf"
               [] OTHER -> "number",
     val |-> v]

RmsText(rx, rz) == [what |-> "RMS", vals |-> <<Fmt(rx), Fmt(rz)>>]

EpsText(eps, alpha, beta) == [what |-> "eps", vals |-> <<Fmt(eps), Fmt(alpha), Fmt(beta)>>]

FracText(frac) == [what |-> "flux stopped", vals |-> <<Fmt(frac)>>]

\* plt.subplots(1, n): a new figure with n empty axes
Subplots(n) == [i \in 1..n |-> <<>>]

\* axes[i].text(...) / axes[i].annotate(...)
AddText(ax, i, t) == [ax EXCEPT ![i] = Append(@, t)]

\* the emittance annotation, drawn only if eps is not nan
AnnotateEmittance(ax, i, eps, alpha, beta) ==
    IF ~isnan(eps) THEN AddText(ax, i, EpsText(eps, alpha, beta)) ELSE ax

\* --------------------------------------------------------------- Init
\* the state after lines 1-33: the file is open, nothing computed yet
Init ==
    /\ InitFnIdle
    /\ file \in Files
    /\ pc = "input_pos" /\ figs = <<>> /\ axes = <<>>
    /\ q = 0 /\ stage = 0 /\ Ntot = 0
    /\ x = <<>> /\ z = <<>> /\ theta_x = <<>> /\ theta_z = <<>>
    /\ rms_x = Unbound /\ rms_z = Unbound
    /\ eps_x = Unbound /\ alpha_x = Unbound /\ beta_x = Unbound /\ gamma_x = Unbound
    /\ eps_z = Unbound /\ alpha_z = Unbound /\ beta_z = Unbound /\ gamma_z = Unbound
    /\ frac_stopped_hc = Unbound /\ frac_stopped_vc = Unbound
    /\ x_yag = <<>> /\ z_yag = <<>> /\ energy_input = <<>> /\ energy_yag = <<>>

collVars == <<frac_stopped_hc, frac_stopped_vc>>
yagVars == <<x_yag, z_yag, energy_input, energy_yag>>
twissX == <<eps_x, alpha_x, beta_x, gamma_x>>
twissZ == <<eps_z, alpha_z, beta_z, gamma_z>>

\* lines 67-80 and 121-133: x, z, the two RMS sizes and, unless a rendering
\* call raised before it, their annotation (drawn unconditionally) on a new
\* figure
Positions(label, cx, cz, outcome) ==
    /\ figs' = Append(figs, label)
    /\ x' = cx
    /\ z' = cz
    /\ rms_x' = compute_rms_size(cx)
    /\ rms_z' = compute_rms_size(cz)
    /\ axes' = IF outcome = "ok"
               THEN AddText(Subplots(3), 1, RmsText(rms_x', rms_z'))
               ELSE Subplots(3)

\* lines 83-95 and 136-148
EmittanceX(th, outcome) ==
    /\ LET r == compute_emittance_and_twiss(x, th)
       IN eps_x' = r[1] /\ alpha_x' = r[2] /\ beta_x' = r[3] /\ gamma_x' = r[4]
    /\ x' = ArgsAfterEmittance(x, th)[1]
    /\ theta_x' = ArgsAfterEmittance(x, th)[2]
    /\ axes' = IF outcome = "ok"
               THEN AnnotateEmittance(axes, 2, eps_x', alpha_x', beta_x')
               ELSE axes

\* lines 98-110 and 151-163
EmittanceZ(th, outcome) ==
    /\ LET r == compute_emittance_and_twiss(z, th)
       IN eps_z' = r[1] /\ alpha_z' = r[2] /\ beta_z' = r[3] /\ gamma_z' = r[4]
    /\ z' = ArgsAfterEmittance(z, th)[1]
    /\ theta_z' = ArgsAfterEmittance(z, th)[2]
    /\ axes' = IF outcome = "ok"
               THEN AnnotateEmittance(axes, 3, eps_z', alpha_z', beta_z')
               ELSE axes

\* where the statement after a panel leads
After(outcome, nextpc) == IF outcome = "ok" THEN nextpc ELSE "crashed"

\* lines 64-80
InputPositions ==
    /\ pc = "input_pos"
    /\ \E outcome \in Rendering(HistEmpty(Column(file.Input, "x"), Column(file.Input, "z"),
                                          input_range, input_range)) :
        /\ Positions(<<"Input">>, Column(file.Input, "x"), Column(file.Input, "z"), outcome)
        /\ pc' = After(outcome, "input_emit_x")
    /\ Ntot' = Len(Column(file.Input, "x"))
    /\ UNCHANGED <<file, q, stage, theta_x, theta_z, twissX, twissZ, collVars, yagVars, fnVars>>

\* lines 83-95
InputEmittanceX ==
    /\ pc = "input_emit_x"
    /\ LET th == [i \in 1..Len(file.Input) |-> FMulInt(file.Input[i].xp, 1000)]
       IN \E outcome \in Rendering(HistEmpty(x, th, Range(pos_lim), Range(angle_lim_mrad))) :
            /\ EmittanceX(th, outcome)
            /\ pc' = After(outcome, "input_emit_z")
    /\ UNCHANGED <<file, figs, q, stage, Ntot, z, theta_z, rms_x, rms_z, twissZ, collVars, yagVars, fnVars>>

\* lines 98-110
InputEmittanceZ ==
    /\ pc = "input_emit_z"
    /\ LET th == [i \in 1..Len(file.Input) |-> FMulInt(file.Input[i].zp, 1000)]
       IN \E outcome \in Rendering(HistEmpty(z, th, Range(pos_lim), Range(angle_lim_mrad))) :
            /\ EmittanceZ(th, outcome)
            /\ pc' = After(outcome, "input_show")
    /\ UNCHANGED <<file, figs, q, stage, Ntot, x, theta_x, rms_x, rms_z, twissX, collVars, yagVars, fnVars>>

\* lines 112-117: show, then enter both loops
InputShow ==
    /\ pc = "input_show"
    /\ q' = 1 /\ stage' = 1
    /\ pc' = "quad_pos"
    /\ UNCHANGED <<file, figs, axes, Ntot, x, z, theta_x, theta_z, rms_x, rms_z,
                   twissX, twissZ, collVars, yagVars, fnVars>>

\* lines 118-133
QuadPositions ==
    /\ pc = "quad_pos"
    /\ LET cx == QuadColumn(q, stage, "Pos_x")
           cz == QuadColumn(q, stage, "Pos_z")
       IN \E outcome \in Rendering(HistEmpty(cx, cz, Range(pos_lim), Range(pos_lim))) :
            /\ Positions(<<quads[q], stages[stage]>>, cx, cz, outcome)
            /\ pc' = After(outcome, "quad_emit_x")
    /\ UNCHANGED <<file, q, stage, Ntot, theta_x, theta_z, twissX, twissZ, collVars, yagVars, fnVars>>

\* lines 136-148
QuadEmittanceX ==
    /\ pc = "quad_emit_x"
    /\ LET th == AngleMrad(QuadColumn(q, stage, "Mom_x"), QuadColumn(q, stage, "Mom_y"))
       IN \E outcome \in Rendering(HistEmpty(x, th, Range(pos_lim), Range(angle_lim_mrad))) :
            /\ EmittanceX(th, outcome)
            /\ pc' = After(outcome, "quad_emit_z")
    /\ UNCHANGED <<file, figs, q, stage, Ntot, z, theta_z, rms_x, rms_z, twissZ, collVars, yagVars, fnVars>>

\* lines 151-163, then the next (q, stage) of lines 116-117
QuadEmittanceZ ==
    /\ pc = "quad_emit_z"
    /\ LET th == AngleMrad(QuadColumn(q, stage, "Mom_z"), QuadColumn(q, stage, "Mom_y"))
       IN \E outcome \in Rendering(HistEmpty(z, th, Range(pos_lim), Range(angle_lim_mrad))) :
            /\ EmittanceZ(th, outcome)
            /\ IF outcome # "ok"
               THEN q' = q /\ stage' = stage /\ pc' = "crashed"
               ELSE IF stage < Len(stages)
               THEN q' = q /\ stage' = stage + 1 /\ pc' = "quad_pos"
               ELSE IF q < Len(quads)
               THEN q' = q + 1 /\ stage' = 1 /\ pc' = "quad_pos"
               ELSE q' = q /\ stage' = stage /\ pc' = "quad_show"
    /\ UNCHANGED <<file, figs, Ntot, x, theta_x, rms_x, rms_z, twissX, collVars, yagVars, fnVars>>

\* lines 165-166
QuadShow ==
    /\ pc = "quad_show"
    /\ pc' = "coll_h"
    /\ UNCHANGED <<file, figs, axes, q, stage, Ntot, x, z, theta_x, theta_z, rms_x, rms_z,
                   twissX, twissZ, collVars, yagVars, fnVars>>

\* a collimator panel: hist2d, then the annotation, then the colorbar
CollPanel(ax, i, frac, outcome) ==
    IF outcome = "hist2d raises" THEN ax ELSE AddText(ax, i, FracText(frac))

\* lines 170-195; len(x_hc) / Ntot raises ZeroDivisionError when Ntot is 0
CollHorizontal ==
    /\ pc = "coll_h"
    /\ figs' = Append(figs, <<"Collimators">>)
    /\ IF Ntot = 0
       THEN /\ pc' = "crashed"
            /\ axes' = Subplots(2)
            /\ UNCHANGED frac_stopped_hc
       ELSE \E outcome \in Rendering(HistEmpty(Column(file.Horizontal_Coll, "x_interaction"),
                                               Column(file.Horizontal_Coll, "z_interaction"),
                                               Range(pos_lim), Range(pos_lim))) :
            /\ frac_stopped_hc' = Rat(Len(file.Horizontal_Coll) * 100, Ntot)
            /\ axes' = CollPanel(Subplots(2), 1, frac_stopped_hc', outcome)
            /\ pc' = After(outcome, "coll_v")
    /\ UNCHANGED <<file, q, stage, Ntot, x, z, theta_x, theta_z, rms_x, rms_z,
                   twissX, twissZ, frac_stopped_vc, yagVars, fnVars>>

\* lines 201-217 (Ntot is not 0 here)
CollVertical ==
    /\ pc = "coll_v"
    /\ \E outcome \in Rendering(HistEmpty(Column(file.Vertical_Coll, "x_interaction"),
                                          Column(file.Vertical_Coll, "z_interaction"),
                                          Range(pos_lim), Range(pos_lim))) :
        /\ frac_stopped_vc' = Rat(Len(file.Vertical_Coll) * 100, Ntot)
        /\ axes' = CollPanel(axes, 2, frac_stopped_vc', outcome)
        /\ pc' = After(outcome, "coll_show")
    /\ UNCHANGED <<file, figs, q, stage, Ntot, x, z, theta_x, theta_z, rms_x, rms_z,
                   twissX, twissZ, frac_stopped_hc, yagVars, fnVars>>

\* lines 219-220
CollShow ==
    /\ pc = "coll_show"
    /\ pc' = "yag_pos"
    /\ UNCHANGED <<file, figs, axes, q, stage, Ntot, x, z, theta_x, theta_z, rms_x, rms_z,
                   twissX, twissZ, collVars, yagVars, fnVars>>

\* lines 222-234; np.concatenate raises ValueError on an empty list
YagPositions ==
    /\ pc = "yag_pos"
    /\ figs' = Append(figs, <<"YAG">>)
    /\ axes' = Subplots(3)
    /\ IF Len(file.BSPECYAG) = 0
       THEN pc' = "crashed" /\ UNCHANGED <<x_yag, z_yag>>
       ELSE /\ x_yag' = Concatenate(Column(file.BSPECYAG, "x_exit"))
            /\ z_yag' = Concatenate(Column(file.BSPECYAG, "z_exit"))
            /\ \E outcome \in Rendering(HistEmpty(x_yag', z_yag', yag_range_x, yag_range_z)) :
                 pc' = After(outcome, "yag_energy")
    /\ UNCHANGED <<file, q, stage, Ntot, x, z, theta_x, theta_z, rms_x, rms_z,
                   twissX, twissZ, collVars, energy_input, energy_yag, fnVars>>

\* lines 237-267 (both trees have entries here)
YagEnergy ==
    /\ pc = "yag_energy"
    /\ energy_input' = Column(file.Input, "energy")
    /\ energy_yag' = Concatenate(Column(file.BSPECYAG, "energy"))
    /\ pc' = "yag_show"
    /\ UNCHANGED <<file, figs, axes, q, stage, Ntot, x, z, theta_x, theta_z, rms_x, rms_z,
                   twissX, twissZ, collVars, x_yag, z_yag, fnVars>>

\* lines 269-275
YagShow ==
    /\ pc = "yag_show"
    /\ pc' = "done"
    /\ UNCHANGED <<file, figs, axes, q, stage, Ntot, x, z, theta_x, theta_z, rms_x, rms_z,
                   twissX, twissZ, collVars, yagVars, fnVars>>

Next ==
    \/ InputPositions \/ InputEmittanceX \/ InputEmittanceZ \/ InputShow
    \/ QuadPositions \/ QuadEmittanceX \/ QuadEmittanceZ \/ QuadShow
    \/ CollHorizontal \/ CollVertical \/ CollShow
    \/ YagPositions \/ YagEnergy \/ YagShow

Spec == Init /\ [][Next]_vars

\* ===================================================================
\* Properties of the two functions, checked under SpecFn
\* ===================================================================

\* v is finite and lies in the closed window w
InWin(v, w) == v.k = "rat" /\ w[1] * v.d <= v.n /\ v.n <= w[2] * v.d

\* indices of the given pair that pass the position and the angle window
KeptIdx ==
    {i \in 1..Len(given[1]) :
        InWin(given[1][i], pos_lim) /\ InWin(given[2][i], angle_lim_mrad)}

\* indices of the given position that pass the position window
PosIdx == {i \in 1..Len(given[1]) : InWin(given[1][i], pos_lim)}

\* the k-th smallest element of the index set S
Nth(S, k) == CHOOSE i \in S : Cardinality({j \in S : j <= i}) = k

\* the elements of arr at the indices S, in index order
Pick(arr, S) == [k \in 1..Cardinality(S) |-> arr[Nth(S, k)]]

\* sum over i of a[i]*b[i] - (sum a)(sum b)/n, for sequences of rationals
SumDev(a, b) ==
    RSub(RSum([i \in 1..Len(a) |-> RMul(a[i], b[i])]),
         RDivInt(RMul(RSum(a), RSum(b)), Len(a)))

\* the determinant of the unbiased sample covariance of the kept samples
KeptDet ==
    LET px == Pick(given[1], KeptIdx)
        pt == Pick(given[2], KeptIdx)
        m == Len(px) - 1
        spp == RDivInt(SumDev(px, px), m)
        spa == RDivInt(SumDev(px, pt), m)
        saa == RDivInt(SumDev(pt, pt), m)
    IN RSub(RMul(spp, saa), RMul(spa, spa))

\* the square of a "rat" or "root" value
Square(v) == IF v.k = "root" THEN Rat(Abs(v.n), v.d) ELSE RMul(v, v)

AllNaN == <<NaN, NaN, NaN, NaN>>

\* C1: with fewer than two samples passing the filter, all four outputs are
\* the undefined sentinel
C1_FewSamplesAllUndefined ==
    (Called("emit") /\ Cardinality(KeptIdx) < 2) => out = AllNaN

C1_Witness ==
    /\ Called("emit") /\ Cardinality(KeptIdx) = 1 /\ Len(given[1]) = 3
    /\ out = AllNaN

\* C2: an undefined emittance comes with undefined alpha, beta and gamma
C2_UndefinedEmittanceUndefinedTwiss ==
    (Called("emit") /\ isnan(out[1])) =>
        (isnan(out[2]) /\ isnan(out[3]) /\ isnan(out[4]))

C2_Witness ==
    /\ Called("emit") /\ Cardinality(KeptIdx) = 3
    /\ isnan(out[1]) /\ isnan(out[2]) /\ isnan(out[3]) /\ isnan(out[4])

\* C3: with at least two kept samples the emittance is defined exactly when
\* the covariance determinant is strictly positive, and then its square is
\* the determinant
C3_EmittanceIffDetPositive ==
    (Called("emit") /\ Cardinality(KeptIdx) >= 2) =>
        /\ (KeptDet.n > 0) <=> ~isnan(out[1])
        /\ (KeptDet.n > 0) => (out[1].k = "root" /\ Square(out[1]) = KeptDet /\ out[1].n > 0)
        /\ (KeptDet.n <= 0) => isnan(out[1])

C3_Witness ==
    /\ Called("emit") /\ Cardinality(KeptIdx) >= 2
    /\ KeptDet.n > 0 /\ out[1].k = "root"

\* zero determinant with three distinct kept samples: undefined emittance
C3_WitnessZeroDet ==
    /\ Called("emit") /\ Cardinality(KeptIdx) = 3
    /\ KeptDet.n = 0 /\ isnan(out[1])
    /\ \A i, j \in KeptIdx : i # j => given[1][i] # given[1][j]

C6_FilterKeepsPairs ==
    Called("emit") =>
        /\ Len(filt.x) = Cardinality(KeptIdx)
        /\ Len(filt.theta) = Len(filt.x)
        /\ filt.x = Pick(given[1], KeptIdx)
        /\ filt.theta = Pick(given[2], KeptIdx)

\* two samples kept, one of them on the window bounds, one sample dropped
\* between them
C6_Witness ==
    /\ Called("emit") /\ Len(given[1]) = 3 /\ KeptIdx = {1, 3}
    /\ given[1][1] = F(5) /\ given[2][1] = F(-5)
    /\ filt.x = <<F(5), given[1][3]>> /\ filt.x[2] # F(5)

\* C7: a call leaves the caller's sequences as given, and the RMS is the
\* population RMS of every position that passes the position window,
\* whatever the angles are
C7_FilteringIndependent ==
    /\ position = given[1] /\ angle = given[2]
    /\ Called("rms") =>
        LET px == Pick(given[1], PosIdx)
        IN IF PosIdx = {} THEN isnan(rms)
           ELSE rms.k = "root" /\ Square(rms) = RDivInt(SumDev(px, px), Len(px))

\* the emittance call came first and dropped a sample for its angle; the RMS
\* call that followed still counted it
C7_Witness ==
    /\ calls = <<"emit", "rms">>
    /\ Cardinality(PosIdx) = 3 /\ Cardinality(KeptIdx) = 1
    /\ rms.k = "root" /\ rms.n > 0
    /\ position = given[1]

\* C8: on the same filtered positions (n >= 2) the RMS divides the sum of
\* squared deviations by n and the position variance divides it by n - 1
C8_Normalizations ==
    LET f == RmsFiltered(given[1])
        n == Len(f)
    IN (Called("rms") /\ n >= 2) =>
        /\ rms.k = "root"
        /\ RMul(F(n), Square(rms)) = SumDev(f, f)
        /\ RMul(F(n - 1), Cov(f, f)) = SumDev(f, f)
        /\ RMul(F(n), Square(rms)) = RMul(F(n - 1), Cov(f, f))

C8_Witness ==
    /\ Called("rms") /\ Len(RmsFiltered(given[1])) = 3
    /\ rms.k = "root" /\ rms.n > 0
    /\ Cov(RmsFiltered(given[1]), RmsFiltered(given[1])) # Square(rms)

\* C9: a defined emittance comes with defined alpha, beta, gamma, beta > 0,
\* gamma > 0 and beta*gamma - alpha^2 = 1
C9_CourantSnyder ==
    (Called("emit") /\ ~isnan(out[1])) =>
        /\ out[1].k = "root" /\ out[2].k = "root" /\ out[3].k = "root" /\ out[4].k = "root"
        /\ out[3].n > 0 /\ out[4].n > 0
        \* beta, gamma > 0, so beta*gamma = 1 + alpha^2 iff the squares agree
        /\ RMul(Square(out[3]), Square(out[4]))
             = Square(RAdd(F(1), Square(out[2])))

\* defined emittance with a non-zero alpha
C9_Witness ==
    /\ Called("emit") /\ out[1].k = "root" /\ out[2].k = "root" /\ out[2].n # 0
    /\ out[3].n > 0

\* ===================================================================
\* Properties of the script, checked under Spec
\* ===================================================================

\* C5: no annotation showing an undefined RMS, emittance, alpha or beta is
\* drawn on a figure
C5_NoUndefinedAnnotation ==
    \A i \in DOMAIN axes : \A j \in 1..Len(axes[i]) :
        axes[i][j].what \in {"RMS", "eps"} =>
            \A k \in 1..Len(axes[i][j].vals) : axes[i][j].vals[k].txt # "nan"

\* the emittance annotations alone are never drawn with an undefined value
C5_EmittanceAnnotationsDefined ==
    \A i \in DOMAIN axes : \A j \in 1..Len(axes[i]) :
        axes[i][j].what = "eps" =>
            \A k \in 1..Len(axes[i][j].vals) : axes[i][j].vals[k].txt = "number"

\* the order in which the figures are created
FigureOrder ==
    <<<<"Input">>,
      <<"Q1", "Begin">>, <<"Q1", "End">>, <<"Q2", "Begin">>, <<"Q2", "End">>,
      <<"Q3", "Begin">>, <<"Q3", "End">>, <<"Q4", "Begin">>, <<"Q4", "End">>,
      <<"Collimators">>, <<"YAG">>>>

\* the column <field> of quadrupole a, stage b, read from the file
OwnColumn(a, b, field) ==
    [i \in 1..Len(file.QuadrupolesTracking) |->
        file.QuadrupolesTracking[i][a][b][field]]

\* the three texts a quadrupole figure may carry, from its own columns
OwnRmsText(a, b) ==
    RmsText(compute_rms_size(OwnColumn(a, b, "Pos_x")),
            compute_rms_size(OwnColumn(a, b, "Pos_z")))

OwnEpsText(a, b, pos, mom) ==
    LET th == [i \in 1..Len(file.QuadrupolesTracking) |->
                  FMulInt(FDiv(OwnColumn(a, b, mom)[i], OwnColumn(a, b, "Mom_y")[i]), 1000)]
        r == compute_emittance_and_twiss(OwnColumn(a, b, pos), th)
    IN EpsText(r[1], r[2], r[3])

\* C10: the figures are created in the fixed order, and a quadrupole figure
\* shows only values computed from the columns of its own quadrupole and
\* stage
C10_FixedOrderOwnValues ==
    /\ Len(figs) <= Len(FigureOrder)
    /\ \A i \in 1..Len(figs) : figs[i] = FigureOrder[i]
    /\ pc = "done" => figs = FigureOrder
    /\ (Len(figs) >= 2 /\ Len(figs) <= 9) =>
        LET a == ((Len(figs) - 2) \div 2) + 1
            b == ((Len(figs) - 2) % 2) + 1
        IN /\ axes[1] \in {<<>>, <<OwnRmsText(a, b)>>}
           /\ pc # "crashed" => axes[1] = <<OwnRmsText(a, b)>>
           /\ axes[2] \in {<<>>, <<OwnEpsText(a, b, "Pos_x", "Mom_x")>>}
           /\ axes[3] \in {<<>>, <<OwnEpsText(a, b, "Pos_z", "Mom_z")>>}
           /\ pc \in {"quad_emit_z", "quad_pos", "quad_show", "coll_h"} =>
                  (axes[2] = <<>> <=> isnan(OwnEpsText(a, b, "Pos_x", "Mom_x").vals[1].val))
           /\ pc \in {"quad_pos", "quad_show", "coll_h"} =>
                  (axes[3] = <<>> <=> isnan(OwnEpsText(a, b, "Pos_z", "Mom_z").vals[1].val))

\* the Q2 End figure is complete and carries both emittance texts, and its
\* RMS differs from the one of the figure before it
C10_Witness ==
    /\ Len(figs) = 5 /\ pc = "quad_pos" /\ q = 3 /\ stage = 1
    /\ axes[2] # <<>> /\ axes[3] # <<>>
    /\ axes[1] # <<OwnRmsText(2, 1)>>

====
